---------------------------- MODULE Spec2Model ----------------------------
(***************************************************************************)
(* Model of webllm_model_analysis.py: the batch pipeline of main (three    *)
(* chart functions, the analysis summary, three data files), the scoring   *)
(* loop of create_deployment_feasibility_chart and the reductions of       *)
(* generate_analysis_summary.                                              *)
(*                                                                         *)
(* Floating-point fields are kept as integers in hundredths: file_size_gb  *)
(* 0.84 is 84, sentiment_f1_score 45.18 is 4518, the thresholds 4.0 and 60 *)
(* are 400 and 6000.  Python's None is the integer None, which is no valid *)
(* score.  A model name is the sequence of the pieces that                 *)
(* name.split('-Instruct') yields.                                         *)
(***************************************************************************)
EXTENDS Integers, Sequences, FiniteSets

VARIABLES
    entry,          \* the function that was called: main, or one function alone
    pc,             \* position of the single thread of control
    dirs,           \* directories that exist on the filesystem
    writes,         \* per output path, how many times it has been written
    data,           \* the literal table embedded in create_webllm_compatibility_data
    webllm_models,  \* local webllm_models of the function that is running
    builds,         \* calls of create_webllm_compatibility_data so far
    derivs,         \* per-record derivation passes run so far
    renders,        \* chart images rendered so far
    idx,            \* position of the scoring loop in webllm_models.items()
    score,          \* local score of the scoring loop
    categories,     \* local categories of create_deployment_feasibility_chart
    findings,       \* findings of generate_analysis_summary
    err             \* the exception that ended the run, or "none"

vars == <<entry, pc, dirs, writes, data, webllm_models, builds, derivs, renders,
          idx, score, categories, findings, err>>

---------------------------------------------------------------------------
\* Bounds of the checked input spaces.
MaxScoreLen == 1
MaxModels == 3

\* Program constants (hundredths for the floating-point ones).
None == -1
SizeSmall == 400
SizeMedium == 600
F1High == 6000
F1Mid == 5000
F1Low == 4000
MinContext == 4096
ExcellentMin == 7
GoodMin == 5
AdequateMin == 3

\* Output paths.
ChartsDir == "/workspace/charts"
DataDir == "/workspace/data"
WorkspaceDir == "/workspace"
MemoryChartPath == "/workspace/charts/memory_vs_sentiment_performance.png"
MatrixChartPath_copied == "/workspace/charts/memory_vs_sentiment_performance.png"
MatrixChartPath == "/workspace/charts/model_comparison_matrix.png"
FeasibilityChartPath == "/workspace/charts/deployment_feasibility.png"
CsvPath == "/workspace/data/model_comparison_matrix.csv"
TxtPath == "/workspace/data/analysis_summary.txt"
JsonPath == "/workspace/data/analysis_findings.json"
OutputFiles == {MemoryChartPath, MatrixChartPath, FeasibilityChartPath,
                CsvPath, TxtPath, JsonPath}

Model(n, size, low, f1, ctx) ==
    [name |-> n, file_size_gb |-> size, low_resource_compatible |-> low,
     sentiment_f1_score |-> f1, context_window |-> ctx]

\* The literal webllm_models dict, in insertion order.
EmbeddedCatalog == <<
    Model(<<"Llama-3.2-1B", "-q4f16_1">>, 88, TRUE, None, 4096),
    Model(<<"Llama-3.2-1B", "-q4f32_1">>, 113, TRUE, None, 4096),
    Model(<<"Llama-3.2-3B", "-q4f16_1">>, 226, TRUE, None, 4096),
    Model(<<"SmolLM2-135M", "-q0f32">>, 72, TRUE, None, 4096),
    Model(<<"SmolLM2-360M", "-q4f32_1">>, 58, TRUE, None, 4096),
    Model(<<"SmolLM2-1.7B", "-q4f32_1">>, 269, TRUE, None, 4096),
    Model(<<"Phi-3.5-mini-instruct-q4f16_1">>, 367, FALSE, None, 4096),
    Model(<<"Phi-3.5-mini-instruct-q4f16_1-1k">>, 252, TRUE, None, 1024),
    Model(<<"Qwen2.5-0.5B", "-q4f32_1">>, 106, TRUE, None, 4096),
    Model(<<"Qwen2.5-1.5B", "-q4f32_1">>, 189, TRUE, 5829, 4096),
    Model(<<"Qwen2.5-3B", "-q4f32_1">>, 289, TRUE, None, 4096),
    Model(<<"gemma-2-2b-it-q4f32_1">>, 251, FALSE, 6262, 4096),
    Model(<<"gemma-2-2b-it-q4f32_1-1k">>, 188, TRUE, 6262, 1024),
    Model(<<"TinyLlama-1.1B-Chat-v1.0-q4f32_1">>, 84, TRUE, 4518, 2048) >>

\* Input spaces of the function-level specifications.
NameOf == <<"m1", "m2", "m3", "m4", "m5">>
ScoreSizes == {72, 84, 400, 599, 600}
ScoreF1s == {None, 0, 4000, 4518, 5000, 5829, 6000, 6262}
ScoreContexts == {2048, 4095, 4096}
ScoreFields == [file_size_gb : ScoreSizes, low_resource_compatible : BOOLEAN,
                sentiment_f1_score : ScoreF1s, context_window : ScoreContexts]
SummaryFields == [file_size_gb : {84, 400}, low_resource_compatible : BOOLEAN,
                  sentiment_f1_score : {None, 0, 4518, 6262}, context_window : {4096}]

Named(f) ==
    [i \in DOMAIN f |-> Model(<<NameOf[i]>>, f[i].file_size_gb, f[i].low_resource_compatible,
                              f[i].sentiment_f1_score, f[i].context_window)]
\* data is a table of lo..hi entries, each drawn from fields.
IsCatalogOver(fields, lo, hi) ==
    \E n \in lo..hi : \E f \in [1..n -> fields] : data = Named(f)

\* Initial filesystems: any set of the three directories closed under parent.
Filesystems == {d \in SUBSET {WorkspaceDir, ChartsDir, DataDir} :
                    d # {} => WorkspaceDir \in d}

---------------------------------------------------------------------------
\* Pure parts of the code.

\* Python truthiness of an optional float: None and 0.0 are both false.
Truthy(x) == x # None /\ x # 0

\* model_name.split('-Instruct')[0]
BaseName(name) == name[1]

SizePoints_flipped(m) ==
    IF m.file_size_gb > SizeSmall THEN 2
    ELSE IF m.file_size_gb > SizeMedium THEN 1 ELSE 0
SizePoints(m) ==
    IF m.file_size_gb < SizeSmall THEN 2
    ELSE IF m.file_size_gb < SizeMedium THEN 1 ELSE 0

LowResourcePoints_three(m) == IF m.low_resource_compatible THEN 3 ELSE 0
LowResourcePoints(m) == IF m.low_resource_compatible THEN 2 ELSE 0

F1Points_inclusive(m) ==
    IF Truthy(m.sentiment_f1_score) /\ m.sentiment_f1_score >= F1High THEN 3
    ELSE IF Truthy(m.sentiment_f1_score) /\ m.sentiment_f1_score >= F1Mid THEN 2
    ELSE IF Truthy(m.sentiment_f1_score) /\ m.sentiment_f1_score >= F1Low THEN 1
    ELSE 0
F1Points(m) ==
    IF Truthy(m.sentiment_f1_score) /\ m.sentiment_f1_score > F1High THEN 3
    ELSE IF Truthy(m.sentiment_f1_score) /\ m.sentiment_f1_score > F1Mid THEN 2
    ELSE IF Truthy(m.sentiment_f1_score) /\ m.sentiment_f1_score > F1Low THEN 1
    ELSE 0

ContextPoints(m) == IF m.context_window >= MinContext THEN 1 ELSE 0

\* The score one pass of the loop body accumulates for a record.
FeasibilityScore(m) ==
    SizePoints(m) + LowResourcePoints(m) + F1Points(m) + ContextPoints(m)

CategoryNames == {"Excellent for Journaling", "Good for Journaling",
                  "Adequate for Journaling", "Not Suitable"}
Category_exclusive(s) ==
    IF s > ExcellentMin THEN "Excellent for Journaling"
    ELSE IF s > GoodMin THEN "Good for Journaling"
    ELSE IF s > AdequateMin THEN "Adequate for Journaling"
    ELSE "Not Suitable"
Category(s) ==
    IF s >= ExcellentMin THEN "Excellent for Journaling"
    ELSE IF s >= GoodMin THEN "Good for Journaling"
    ELSE IF s >= AdequateMin THEN "Adequate for Journaling"
    ELSE "Not Suitable"

\* max(pairs, key=lambda x: x[1]) and min(...): the first extreme element.
RECURSIVE PyMaxFrom(_, _, _)
PyMaxFrom(s, i, best) ==
    IF i > Len(s) THEN best
    ELSE PyMaxFrom(s, i + 1, IF s[i][2] > best[2] THEN s[i] ELSE best)
RECURSIVE PyMaxFrom_last(_, _, _)
PyMaxFrom_last(s, i, best) ==
    IF i > Len(s) THEN best
    ELSE PyMaxFrom_last(s, i + 1, IF s[i][2] >= best[2] THEN s[i] ELSE best)
PyMax_last(s) == PyMaxFrom_last(s, 2, s[1])
PyMax(s) == PyMaxFrom(s, 2, s[1])
RECURSIVE PyMinFrom(_, _, _)
PyMinFrom(s, i, best) ==
    IF i > Len(s) THEN best
    ELSE PyMinFrom(s, i + 1, IF s[i][2] < best[2] THEN s[i] ELSE best)
PyMin(s) == PyMinFrom(s, 2, s[1])

HasSentiment(m) == Truthy(m.sentiment_f1_score)
Under4Gb(m) == m.file_size_gb < SizeSmall
LowResource(m) == m.low_resource_compatible
SentimentPairs(models) ==
    [i \in 1..Len(SelectSeq(models, HasSentiment)) |->
        <<SelectSeq(models, HasSentiment)[i].name,
          SelectSeq(models, HasSentiment)[i].sentiment_f1_score>>]
SizePairs(models) ==
    [i \in 1..Len(models) |-> <<models[i].name, models[i].file_size_gb>>]

\* The findings dict, when every entry evaluates.
Findings(models) ==
    [total_models_analyzed |-> Len(models),
     models_with_sentiment_data |-> Len(SelectSeq(models, HasSentiment)),
     models_under_4gb |-> Len(SelectSeq(models, Under4Gb)),
     low_resource_compatible |-> Len(SelectSeq(models, LowResource)),
     best_sentiment_model |-> PyMax(SentimentPairs(models)),
     smallest_model |-> PyMin(SizePairs(models))]

\* The statements of main in order, each named by the first position it runs.
MainSteps_retry ==
    <<"main_mkdir", "mem_data", "mat_data", "fea_data", "mem_data", "sum_data",
      "main_csv", "main_txt", "main_json", "done">>
MainSteps ==
    <<"main_mkdir", "mem_data", "mat_data", "fea_data", "sum_data",
      "main_csv", "main_txt", "main_json", "done">>
StepIndex(p) == CHOOSE i \in 1..Len(MainSteps) :
                    MainSteps[i] = p /\ \A j \in 1..(i - 1) : MainSteps[j] # p
\* Where control goes when the statement begun at p is over.
After(p) == IF entry = "main" THEN MainSteps[StepIndex(p) + 1] ELSE "returned"

Raise(e) ==
    /\ pc' = "failed"
    /\ err' = e

NoCategories == [c \in CategoryNames |-> <<>>]
NoWrites == [f \in OutputFiles |-> 0]
Written(f) == [writes EXCEPT ![f] = @ + 1]

---------------------------------------------------------------------------
\* main

\* Path('/workspace/charts').mkdir(exist_ok=True): no parents are created.
MainMkdir ==
    /\ pc = "main_mkdir"
    /\ IF WorkspaceDir \in dirs
       THEN /\ dirs' = dirs \cup {ChartsDir}
            /\ pc' = After("main_mkdir")
            /\ err' = err
       ELSE /\ Raise("FileNotFoundError")
            /\ dirs' = dirs
    /\ UNCHANGED <<entry, writes, data, webllm_models, builds, derivs, renders,
                   idx, score, categories, findings>>

\* The first statement of every chart function and of the summary.
CallCatalog(here, next) ==
    /\ pc = here
    /\ webllm_models' = data
    /\ builds' = builds + 1
    /\ pc' = next

\* The per-record pass that prepares a chart's table.
Prepare(here, next) ==
    /\ pc = here
    /\ derivs' = derivs + 1
    /\ pc' = next

\* plt.savefig(path): fails when the directory of path is missing.
Savefig(here, path, first) ==
    /\ pc = here
    /\ IF ChartsDir \in dirs
       THEN /\ writes' = Written(path)
            /\ renders' = renders + 1
            /\ pc' = After(first)
            /\ err' = err
       ELSE /\ Raise("FileNotFoundError")
            /\ UNCHANGED <<writes, renders>>

\* create_memory_vs_performance_chart
MemData ==
    /\ CallCatalog("mem_data", "mem_prepare")
    /\ UNCHANGED <<entry, dirs, writes, data, derivs, renders, idx, score,
                   categories, findings, err>>
MemPrepare ==
    /\ Prepare("mem_prepare", "mem_savefig")
    /\ UNCHANGED <<entry, dirs, writes, data, webllm_models, builds, renders, idx,
                   score, categories, findings, err>>
MemSavefig ==
    /\ Savefig("mem_savefig", MemoryChartPath, "mem_data")
    /\ UNCHANGED <<entry, dirs, data, webllm_models, builds, derivs, idx, score,
                   categories, findings>>

\* create_model_comparison_matrix
MatData ==
    /\ CallCatalog("mat_data", "mat_prepare")
    /\ UNCHANGED <<entry, dirs, writes, data, derivs, renders, idx, score,
                   categories, findings, err>>
MatPrepare ==
    /\ Prepare("mat_prepare", "mat_savefig")
    /\ UNCHANGED <<entry, dirs, writes, data, webllm_models, builds, renders, idx,
                   score, categories, findings, err>>
MatSavefig ==
    /\ Savefig("mat_savefig", MatrixChartPath, "mat_data")
    /\ UNCHANGED <<entry, dirs, data, webllm_models, builds, derivs, idx, score,
                   categories, findings>>

\* create_deployment_feasibility_chart
FeaData ==
    /\ CallCatalog("fea_data", "fea_loop")
    /\ categories' = NoCategories
    /\ idx' = 0
    /\ UNCHANGED <<entry, dirs, writes, data, derivs, renders, score, findings, err>>

\* for model_name, data in webllm_models.items(): score = 0
FeaLoop ==
    /\ pc = "fea_loop"
    /\ IF idx < Len(webllm_models)
       THEN /\ idx' = idx + 1
            /\ score' = 0
            /\ derivs' = derivs
            /\ pc' = "fea_size"
       ELSE /\ derivs' = derivs + 1
            /\ pc' = "fea_savefig"
            /\ UNCHANGED <<idx, score>>
    /\ UNCHANGED <<entry, dirs, writes, data, webllm_models, builds, renders,
                   categories, findings, err>>

ScoreStep(here, points, next) ==
    /\ pc = here
    /\ score' = score + points
    /\ pc' = next
    /\ UNCHANGED <<entry, dirs, writes, data, webllm_models, builds, derivs, renders,
                   idx, categories, findings, err>>

FeaSize == ScoreStep("fea_size", SizePoints(webllm_models[idx]), "fea_lowres")
FeaLowResource ==
    ScoreStep("fea_lowres", LowResourcePoints(webllm_models[idx]), "fea_f1")
FeaF1 == ScoreStep("fea_f1", F1Points(webllm_models[idx]), "fea_context")
FeaContext ==
    ScoreStep("fea_context", ContextPoints(webllm_models[idx]), "fea_categorize")

FeaCategorize ==
    /\ pc = "fea_categorize"
    /\ categories' = [categories EXCEPT
            ![Category(score)] = Append(@, BaseName(webllm_models[idx].name))]
    /\ pc' = "fea_loop"
    /\ UNCHANGED <<entry, dirs, writes, data, webllm_models, builds, derivs, renders,
                   idx, score, findings, err>>

FeaSavefig ==
    /\ Savefig("fea_savefig", FeasibilityChartPath, "fea_data")
    /\ UNCHANGED <<entry, dirs, data, webllm_models, builds, derivs, idx, score,
                   categories, findings>>

\* generate_analysis_summary
SumData ==
    /\ CallCatalog("sum_data", "sum_findings")
    /\ UNCHANGED <<entry, dirs, writes, data, derivs, renders, idx, score,
                   categories, findings, err>>

\* The findings dict literal, evaluated entry by entry: max() of an empty list
\* raises ValueError before smallest_model is reached.
SumFindings ==
    /\ pc = "sum_findings"
    /\ IF Len(SentimentPairs(webllm_models)) = 0
       THEN /\ Raise("ValueError")
            /\ findings' = findings
       ELSE /\ findings' = Findings(webllm_models)
            /\ pc' = After("sum_data")
            /\ err' = err
    /\ UNCHANGED <<entry, dirs, writes, data, webllm_models, builds, derivs, renders,
                   idx, score, categories>>

\* A write of a file in /workspace/data.
DataWrite(here, path, failure) ==
    /\ pc = here
    /\ IF DataDir \in dirs
       THEN /\ writes' = Written(path)
            /\ pc' = After(here)
            /\ err' = err
       ELSE /\ Raise(failure)
            /\ writes' = writes
    /\ UNCHANGED <<entry, dirs, data, webllm_models, builds, derivs, renders, idx,
                   score, categories, findings>>

\* comparison_df.to_csv(...), open(..., 'w') twice.
MainCsv ==
    DataWrite("main_csv", CsvPath, "OSError")
MainTxt == DataWrite("main_txt", TxtPath, "FileNotFoundError")
MainJson == DataWrite("main_json", JsonPath, "FileNotFoundError")

---------------------------------------------------------------------------
\* Specifications.

InitCommon ==
    /\ writes = NoWrites
    /\ webllm_models = <<>>
    /\ builds = 0
    /\ derivs = 0
    /\ renders = 0
    /\ idx = 0
    /\ score = 0
    /\ categories = NoCategories
    /\ findings = <<>>
    /\ err = "none"

\* One run of the script: the embedded table, any initial filesystem.
Init ==
    /\ entry = "main"
    /\ pc = "main_mkdir"
    /\ data = EmbeddedCatalog
    /\ dirs \in Filesystems
    /\ InitCommon

Next ==
    \/ MainMkdir
    \/ MemData \/ MemPrepare \/ MemSavefig
    \/ MatData \/ MatPrepare \/ MatSavefig
    \/ FeaData \/ FeaLoop \/ FeaSize \/ FeaLowResource \/ FeaF1 \/ FeaContext
    \/ FeaCategorize \/ FeaSavefig
    \/ SumData \/ SumFindings
    \/ MainCsv \/ MainTxt \/ MainJson

Spec == Init /\ [][Next]_vars

\* create_deployment_feasibility_chart alone, over every bounded table.
InitScore ==
    /\ entry = "create_deployment_feasibility_chart"
    /\ pc = "fea_data"
    /\ IsCatalogOver(ScoreFields, 1, MaxScoreLen)
    /\ dirs = {WorkspaceDir, ChartsDir, DataDir}
    /\ InitCommon

NextScore ==
    \/ FeaData \/ FeaLoop \/ FeaSize \/ FeaLowResource \/ FeaF1 \/ FeaContext
    \/ FeaCategorize \/ FeaSavefig

SpecScore == InitScore /\ [][NextScore]_vars

\* generate_analysis_summary alone, over every bounded table.
InitSummary ==
    /\ entry = "generate_analysis_summary"
    /\ pc = "sum_data"
    /\ IsCatalogOver(SummaryFields, 0, MaxModels)
    /\ dirs = {WorkspaceDir, ChartsDir, DataDir}
    /\ InitCommon

NextSummary == SumData \/ SumFindings

SpecSummary == InitSummary /\ [][NextSummary]_vars

\* generate_analysis_summary alone, over the embedded table and every bounded
\* table.
InitSummaryAll ==
    /\ entry = "generate_analysis_summary"
    /\ pc = "sum_data"
    /\ \/ data = EmbeddedCatalog
       \/ IsCatalogOver(SummaryFields, 0, MaxModels)
    /\ dirs = {WorkspaceDir, ChartsDir, DataDir}
    /\ InitCommon

SpecSummaryAll == InitSummaryAll /\ [][NextSummary]_vars

---------------------------------------------------------------------------
\* Properties.

Present(x) == x # None
Current == webllm_models[idx]
\* The loop body has computed the score of record idx.
Scored ==
    \/ pc = "fea_categorize"
    \/ pc \in {"fea_loop", "fea_savefig", "returned", "done"} /\ idx > 0
\* Record idx has been put into a category.
Categorized == pc \in {"fea_loop", "fea_savefig", "returned", "done"} /\ idx > 0
LastOf(s) == s[Len(s)]
PlacedIn(c) ==
    /\ Len(categories[c]) > 0
    /\ LastOf(categories[c]) = BaseName(Current.name)

\* The additive rule as the specification words it.
RuleSize(m) == IF m.file_size_gb < 400 THEN 2 ELSE IF m.file_size_gb < 600 THEN 1 ELSE 0
RuleLow(m) == IF m.low_resource_compatible THEN 2 ELSE 0
RuleF1(m) ==
    IF ~Present(m.sentiment_f1_score) THEN 0
    ELSE IF m.sentiment_f1_score > 6000 THEN 3
    ELSE IF m.sentiment_f1_score > 5000 THEN 2
    ELSE IF m.sentiment_f1_score > 4000 THEN 1
    ELSE 0
RuleContext(m) == IF m.context_window >= 4096 THEN 1 ELSE 0
RuleScore(m) == RuleSize(m) + RuleLow(m) + RuleF1(m) + RuleContext(m)

IsTinyLlamaScenario(m) ==
    /\ m.file_size_gb = 84
    /\ m.low_resource_compatible
    /\ m.sentiment_f1_score = 4518
    /\ m.context_window = 2048
IsNoF1Scenario(m) ==
    /\ m.file_size_gb = 72
    /\ m.low_resource_compatible
    /\ m.sentiment_f1_score = None
    /\ m.context_window = 4096

\* C1: the score the loop body computes for a record equals the additive rule
\* (+2/+1/+0 by file size, +2 if low-resource, +3/+2/+1/+0 by a present F1,
\* +0 for an absent one, +1 for a context of at least 4096), and the two
\* concrete records score 5 and are put into 'Good'.
C1_ScoreIsAdditiveRule ==
    /\ Scored => score = RuleScore(Current)
    /\ Categorized /\ (IsTinyLlamaScenario(Current) \/ IsNoF1Scenario(Current))
         => score = 5 /\ PlacedIn("Good for Journaling")
C1_Witness ==
    /\ Categorized
    /\ IsTinyLlamaScenario(Current)
    /\ score = 5
    /\ PlacedIn("Good for Journaling")

\* C2: at every point of the scoring loop the accumulated score is an integer
\* between 0 and 8.
C2_ScoreInRange == score \in 0..8
C2_Witness == pc = "fea_categorize" /\ score = 8

\* C3: the categorizing step puts the record into exactly the bucket of its
\* score: >= 7 Excellent, 5..6 Good, 3..4 Adequate, 0..2 Not Suitable, and
\* into no other bucket.
Places(c) ==
    categories' = [categories EXCEPT ![c] = Append(@, BaseName(Current.name))]
C3_BucketOfScore ==
    [][pc = "fea_categorize" =>
        /\ score >= 7 => Places("Excellent for Journaling")
        /\ score \in 5..6 => Places("Good for Journaling")
        /\ score \in 3..4 => Places("Adequate for Journaling")
        /\ score \in 0..2 => Places("Not Suitable")
        /\ score >= 0]_vars
C3_Witness ==
    /\ Categorized
    /\ score = 7
    /\ PlacedIn("Excellent for Journaling")

\* C4: a record that differs from the scored one in one field only, by a
\* smaller file size, by being low-resource compatible, or by a larger
\* present F1 (both present, zero included), never scores lower.
BetterVariants(m) ==
    {[m EXCEPT !.file_size_gb = s] : s \in {t \in ScoreSizes : t < m.file_size_gb}}
    \cup (IF m.low_resource_compatible THEN {}
          ELSE {[m EXCEPT !.low_resource_compatible = TRUE]})
    \cup {[m EXCEPT !.sentiment_f1_score = f] :
            f \in {g \in ScoreF1s : Present(g) /\ Present(m.sentiment_f1_score)
                                    /\ g > m.sentiment_f1_score}}
C4_Monotonic ==
    Scored => \A m \in BetterVariants(Current) : FeasibilityScore(m) >= score
C4_Witness ==
    /\ Scored
    /\ Current.file_size_gb = 600
    /\ ~Current.low_resource_compatible
    /\ Current.sentiment_f1_score = 0
    /\ \E m \in BetterVariants(Current) :
            m.file_size_gb < 600 /\ FeasibilityScore(m) > score
    /\ \E m \in BetterVariants(Current) :
            m.low_resource_compatible /\ FeasibilityScore(m) > score
    /\ \E m \in BetterVariants(Current) :
            m.sentiment_f1_score > 0 /\ FeasibilityScore(m) > score

Over == pc \in {"returned", "failed", "done"}
PresentIndices == {i \in DOMAIN data : Present(data[i].sentiment_f1_score)}

\* C5: with no present sentiment_f1_score in the table, the summary ends in
\* the defined data error 'no model has the required benchmark field'.
C5_EmptyF1RaisesDataError ==
    Over /\ PresentIndices = {}
        => err = "DataError: no model has the required benchmark field"

\* C6: whenever main is about to write an output file, the directory it
\* writes into exists.
C6_OutputDirExistsAtWrite ==
    /\ pc \in {"mem_savefig", "mat_savefig", "fea_savefig"} => ChartsDir \in dirs
    /\ pc \in {"main_csv", "main_txt", "main_json"} => DataDir \in dirs

\* C7: when some record has a present sentiment_f1_score, the summary returns
\* and best_sentiment_model is a record with a present score that no present
\* score exceeds.
C7_BestIsMaxOfPresent ==
    Over /\ PresentIndices # {} =>
        /\ pc = "returned"
        /\ \E i \in PresentIndices :
            /\ findings.best_sentiment_model = <<data[i].name, data[i].sentiment_f1_score>>
            /\ \A j \in PresentIndices :
                    data[j].sentiment_f1_score <= data[i].sentiment_f1_score

\* C8: models_with_sentiment_data is the number of records whose
\* sentiment_f1_score is present, a present zero included.
C8_CountsPresent ==
    pc = "returned" =>
        findings.models_with_sentiment_data = Cardinality(PresentIndices)

\* C9: no output path is ever written twice, and a completed run of main has
\* written each of the six output files once.
C9_EachFileWrittenOnce ==
    /\ \A f \in DOMAIN writes : writes[f] <= 1
    /\ pc = "done" => /\ Cardinality(DOMAIN writes) = 6
                      /\ \A f \in DOMAIN writes : writes[f] = 1
C9_Witness ==
    /\ pc = "done"
    /\ \A f \in DOMAIN writes : writes[f] = 1

Phase ==
    CASE pc = "main_mkdir" -> 1
      [] pc \in {"mem_data", "mem_prepare", "mem_savefig"} -> 2
      [] pc \in {"mat_data", "mat_prepare", "mat_savefig"} -> 3
      [] pc \in {"fea_data", "fea_loop", "fea_size", "fea_lowres", "fea_f1",
                 "fea_context", "fea_categorize", "fea_savefig"} -> 4
      [] pc \in {"sum_data", "sum_findings"} -> 5
      [] pc = "main_csv" -> 6
      [] pc = "main_txt" -> 7
      [] pc = "main_json" -> 8
      [] OTHER -> 9
Iteration ==
    CASE pc \in {"fea_loop", "fea_savefig"} -> idx + 1
      [] pc \in {"fea_size", "fea_lowres", "fea_f1", "fea_context", "fea_categorize"} -> idx
      [] OTHER -> 0
Step ==
    CASE pc \in {"mem_prepare", "mat_prepare", "sum_findings", "fea_size"} -> 1
      [] pc \in {"mem_savefig", "mat_savefig", "fea_lowres"} -> 2
      [] pc = "fea_f1" -> 3
      [] pc = "fea_context" -> 4
      [] pc = "fea_categorize" -> 5
      [] pc = "fea_savefig" -> 6
      [] OTHER -> 0
Position == Phase * 10000 + Iteration * 10 + Step

TopF1Indices ==
    {i \in PresentIndices : \A j \in PresentIndices :
        data[j].sentiment_f1_score <= data[i].sentiment_f1_score}
SmallestIndices ==
    {i \in DOMAIN data : \A j \in DOMAIN data :
        data[i].file_size_gb <= data[j].file_size_gb}
FirstOf(S) == CHOOSE i \in S : \A j \in S : i <= j

\* C11: when the summary returns, best_sentiment_model is the first record in
\* catalog order among those with the maximum sentiment_f1_score and
\* smallest_model is the first among those with the minimum file_size_gb; on
\* the embedded catalog the best model is 'gemma-2-2b-it-q4f32_1'.
C11_FirstInCatalogOrderWins ==
    pc = "returned" =>
        /\ findings.best_sentiment_model =
              <<data[FirstOf(TopF1Indices)].name,
                data[FirstOf(TopF1Indices)].sentiment_f1_score>>
        /\ findings.smallest_model =
              <<data[FirstOf(SmallestIndices)].name,
                data[FirstOf(SmallestIndices)].file_size_gb>>
        /\ data = EmbeddedCatalog =>
              findings.best_sentiment_model = <<(<<"gemma-2-2b-it-q4f32_1">>), 6262>>
C11_Witness ==
    /\ pc = "returned"
    /\ data = EmbeddedCatalog
    /\ Cardinality(TopF1Indices) = 2
    /\ findings.best_sentiment_model[1] = <<"gemma-2-2b-it-q4f32_1">>

===========================================================================
